---- MODULE Spec2Model ----
(***************************************************************************)
(* The kiosk terminal of rasptime_client: the RFID poll loop of            *)
(* HomeScreen, the screens and their Kivy clock callbacks, the roster      *)
(* refresher of CurrentWorkingWidget, and the DataProvider / RfidProvider  *)
(* functions they call.                                                    *)
(*                                                                         *)
(* Python strings are sequences of string pieces, so that '+' is \o.       *)
(* Python None of a string-typed value is the piece None below; None of a  *)
(* tuple-typed value is the empty tuple (both are falsy in Python too).    *)
(***************************************************************************)
EXTENDS Integers, Sequences, FiniteSets, TLC

None == <<"~None">>
Truthy(s) == s # None /\ s # <<>>

RECURSIVE SeqToSet(_)
SeqToSet(s) == IF s = <<>> THEN {} ELSE {Head(s)} \cup SeqToSet(Tail(s))

\* [x for x in s if not any(x == y for y in other)]
RECURSIVE NotAnyIn(_, _)
NotAnyIn(s, other) ==
    IF s = <<>> THEN <<>>
    ELSE (IF \E i \in 1..Len(other) : Head(s) = other[i] THEN <<>> ELSE <<Head(s)>>)
         \o NotAnyIn(Tail(s), other)

(***************************************************************************)
(* Bounds of the model.                                                    *)
(***************************************************************************)
\* Pattern threads of the buzzer alive at once.
MaxPatterns == 2
\* GPIO.output calls on the buzzer pin that are counted.
MaxWrites == 6
\* Calls of rp.cleanup() (the program makes two: on_stop and the final block).
MaxCleanups == 2
\* Presses on the clock within one window.
MaxPresses == 6
\* Pending Clock.schedule_once(..., 0) callbacks the UI thread has not run yet.
MaxQueue == 1
\* Length of a roster returned by one fetch.
MaxRoster == 2
\* Roster refresh threads that can exist at once in the model.
MaxThreads == 2

(***************************************************************************)
(* config.py                                                               *)
(***************************************************************************)
\* admin_rfid = '0B79D206A6' as shipped
ShippedAdminRfid == <<"0", "B", "7", "9", "D", "2", "0", "6", "A", "6">>
buzzer_enabled == TRUE
buzzer_pin == 17

(***************************************************************************)
(* rfidprovider.py                                                         *)
(***************************************************************************)
Digits == <<"0", "1", "2", "3", "4", "5", "6", "7", "8", "9">>

\* str(x) of a non-negative int
RECURSIVE Str(_)
Str(x) == IF x < 10 THEN <<Digits[x + 1]>> ELSE Str(x \div 10) \o <<Digits[(x % 10) + 1]>>

\* ''.join(str(x) for x in uid)
RECURSIVE JoinStr(_)
JoinStr(uid) == IF uid = <<>> THEN <<>> ELSE Str(Head(uid)) \o JoinStr(Tail(uid))

\* The cards of the model: the five bytes anticoll() returns (UID + BCC).
\* AdminCard is the card whose bytes are the shipped admin_rfid in hex.
AdminCard == <<11, 121, 210, 6, 166>>
UserCard == <<18, 52, 86, 120, 8>>
Cards == {AdminCard, UserCard}

\* What the RC522 answers to one request()/anticoll(): no card in the field
\* (request error), a collision error, or the bytes of a card.
ReaderAnswers ==
    {[request_error |-> TRUE, anticoll_error |-> FALSE, uid |-> <<>>]}
    \cup {[request_error |-> FALSE, anticoll_error |-> e, uid |-> c] :
            e \in BOOLEAN, c \in Cards}

read_uid(dev, hw) ==
    IF dev THEN None
    ELSE IF hw.request_error THEN None
    ELSE IF hw.anticoll_error THEN None
    ELSE JoinStr(hw.uid)

(***************************************************************************)
(* dataprovider.py.  A JSON object is a function from its keys to values;  *)
(* a key that is absent maps to Missing.  An HTTP exchange is a record:    *)
(* status 0 stands for a RequestException (no response at all).            *)
(***************************************************************************)
Missing == <<"~missing">>
JTrue == <<"true">>
JFalse == <<"false">>

\* dict.get(key) and dict.get(key, default)
Get(d, key) == IF d[key] = Missing THEN None ELSE d[key]
GetDefault(d, key, default) == IF d[key] = Missing THEN default ELSE d[key]

JNone == [kind |-> "none", d |-> <<>>]
JList(items) == [kind |-> "list", d |-> items]
JInvalid == [kind |-> "invalid", d |-> <<>>]
JDict(d) == [kind |-> "dict", d |-> d]
\* bool(data): a dict is truthy when it has a key, a list when it has an item
JTruthy(data) ==
    \/ data.kind = "list" /\ Len(data.d) > 0
    \/ data.kind = "dict" /\ \E k \in DOMAIN data.d : data.d[k] # Missing

Ret(v) == [raised |-> FALSE, val |-> v]
Raised == [raised |-> TRUE, val |-> JNone]

\* resp.json(): a body that is no JSON raises
json(resp) == IF resp.body.kind = "invalid" THEN Raised ELSE Ret(resp.body)

\* DataProvider.__get
get(resp) ==
    IF resp.status = 0 THEN Ret(JNone)
    ELSE IF resp.status = 200 THEN json(resp)
    ELSE IF resp.status = 404 THEN Ret(JNone)
    ELSE Ret(JNone)

\* DataProvider.__post
post(resp) ==
    IF resp.status = 0 THEN Ret(JNone)
    ELSE IF resp.status \in {200, 201} THEN json(resp)
    ELSE IF resp.status = 404 THEN Ret(JNone)
    ELSE Ret(JNone)

\* DataProvider.user_info: None or (name, picture path, user_id, clocked_in)
user_info(resp) ==
    LET r == get(resp) IN
    IF r.raised THEN <<>>
    ELSE IF JTruthy(r.val)
         THEN IF r.val.kind # "dict" THEN <<>>
              ELSE << Get(r.val.d, "displayName"),
                      <<"images/default_user.jpg">>,
                      Get(r.val.d, "userId"),
                      GetDefault(r.val.d, "clockedIn", JFalse) >>
         ELSE <<>>

\* DataProvider.punch: None or (action, message, display_name)
punch(resp) ==
    LET r == post(resp) IN
    IF r.raised THEN <<>>
    ELSE IF JTruthy(r.val)
         THEN IF r.val.kind # "dict" THEN <<>>
              ELSE << Get(r.val.d, "action"),
                      Get(r.val.d, "message"),
                      Get(r.val.d, "displayName") >>
         ELSE <<>>

\* DataProvider.check_registration_mode: session id or None
check_registration_mode(resp) ==
    LET r == get(resp) IN
    IF r.raised THEN None
    ELSE IF JTruthy(r.val)
         THEN IF r.val.kind # "dict" THEN None
              ELSE IF Get(r.val.d, "active") \notin {None, JFalse, <<>>}
                   THEN Get(r.val.d, "sessionId")
                   ELSE None
         ELSE None

\* DataProvider.submit_registration: True on success, False on failure
submit_registration(resp) ==
    LET r == post(resp) IN
    IF r.raised THEN FALSE ELSE r.val.kind # "none"

(***************************************************************************)
(* What the backend can answer.  The poll loop draws one exchange per      *)
(* call; the statuses and bodies cover every branch of __get and __post.   *)
(***************************************************************************)
Statuses == {0, 200, 201, 404, 500}

TomMeyer == <<"Tom Meyer">>
Exchanges(bodies) ==
    {[status |-> 0, body |-> JNone]}
    \cup {[status |-> st, body |-> b] :
            st \in Statuses \ {0}, b \in {JNone, JInvalid} \cup bodies}

UserBodies ==
    {JDict([displayName |-> n, userId |-> n, clockedIn |-> c]) :
        n \in {Missing}, c \in {Missing}}
    \cup {JDict([displayName |-> TomMeyer, userId |-> <<"3">>, clockedIn |-> c]) :
        c \in {JTrue, JFalse, Missing}}

PunchBodies ==
    {JDict([action |-> a, message |-> <<"ok">>, displayName |-> n]) :
        a \in {<<"CLOCK_IN">>, <<"CLOCK_OUT">>, <<"BREAK">>},
        n \in {TomMeyer}}

RegistrationBodies ==
    {JDict([active |-> a, sessionId |-> sid]) :
        a \in {JTrue, JFalse, Missing}, sid \in {<<"s1">>, Missing}}

SubmitBodies == {JDict([status |-> st]) : st \in {<<"ok">>, Missing}}

(***************************************************************************)
(* dataprovider_mock.py: the methods of the mock DataProvider, next to     *)
(* those of the real one.                                                  *)
(***************************************************************************)
RealOperations ==
    {"user_info", "punch", "clock_in", "clock_out", "user_work_summary",
     "working_users", "check_registration_mode", "submit_registration",
     "health_check"}
MockOperations ==
    {"working_users", "user_info", "user_work_summary", "clock_in", "clock_out"}

\* if config.demo_mode: from dataprovider_mock import DataProvider
Operations(demo) == IF demo THEN MockOperations ELSE RealOperations

\* The length of the tuple user_info returns for a known tag: the mock
\* returns (name, image_path, user_id), the real one adds clocked_in.
UserInfoShape(demo) == IF demo THEN 3 ELSE 4

\* self.mock_users of the mock, in the order of the dict.
MockUsers ==
    << [tag |-> "12345", name |-> "Max Mustermann", id |-> "user_001",
        clocked_in |-> FALSE],
       [tag |-> "67890", name |-> "Anna Schmidt", id |-> "user_002",
        clocked_in |-> FALSE],
       [tag |-> "11111", name |-> "Tom Meyer", id |-> "user_003",
        clocked_in |-> TRUE] >>

\* The user ids the mock is called with: its three users and one it has not.
MockIds == {"user_001", "user_002", "user_003", "user_999"}

\* for uid, user in self.mock_users.items(): if user['id'] == user_id: the
\* first entry with this id, 0 when the loop ends without one.
mock_find(users, user_id) ==
    IF \E i \in 1..Len(users) : users[i].id = user_id
    THEN CHOOSE i \in 1..Len(users) :
            /\ users[i].id = user_id
            /\ \A j \in 1..(i - 1) : users[j].id # user_id
    ELSE 0

\* A mutant of mock_clock_in: no test of the flag.
mock_clock_in_Forces(users, user_id) ==
    LET i == mock_find(users, user_id) IN
    IF i = 0 THEN [ret |-> "None", users |-> users]
    ELSE [ret |-> "True", users |-> [users EXCEPT ![i].clocked_in = TRUE]]

\* The mock's clock_in: what it returns and the users it leaves.
mock_clock_in(users, user_id) ==
    LET i == mock_find(users, user_id) IN
    IF i = 0 THEN [ret |-> "None", users |-> users]
    ELSE IF users[i].clocked_in THEN [ret |-> "False", users |-> users]
    ELSE [ret |-> "True", users |-> [users EXCEPT ![i].clocked_in = TRUE]]

\* The mock's clock_out.
mock_clock_out(users, user_id) ==
    LET i == mock_find(users, user_id) IN
    IF i = 0 THEN [ret |-> "None", users |-> users]
    ELSE IF ~users[i].clocked_in THEN [ret |-> "False", users |-> users]
    ELSE [ret |-> "True", users |-> [users EXCEPT ![i].clocked_in = FALSE]]

\* The mock's working_users: (name, clock_in_time, id) of every user with
\* the flag set, in the order of the dict; the time is the time of the call.
RECURSIVE mock_working_users(_)
mock_working_users(users) ==
    IF users = <<>> THEN <<>>
    ELSE (IF Head(users).clocked_in
          THEN << <<Head(users).name, "%H:%M", Head(users).id>> >>
          ELSE <<>>) \o mock_working_users(Tail(users))

(***************************************************************************)
(* beep.py                                                                 *)
(***************************************************************************)
PatternNames ==
    {"success", "error", "warning", "clock_in", "clock_out", "admin_mode",
     "registration_success"}

\* The beeps of _<name>_pattern
PatternBeeps(name) ==
    CASE name = "clock_in" -> 1
      [] name \in {"clock_out", "warning", "success"} -> 2
      [] name \in {"error", "admin_mode", "registration_success"} -> 3

\* What a pattern of n beeps writes to the pin: beep() writes HIGH, then LOW.
RECURSIVE Levels(_)
Levels(n) == IF n = 0 THEN <<>> ELSE <<"HIGH", "LOW">> \o Levels(n - 1)

\* Buzzer.__init__: enabled unless no GPIO mode is set, the pin has no BOARD
\* number, or GPIO raised
GpioModes == {"None", "BOARD", "BCM"}
Buzzer_init(mode, p, raises) ==
    IF mode = "None" THEN FALSE
    ELSE IF mode = "BOARD" /\ p \notin {17, 27, 22} THEN FALSE
    ELSE ~raises

(***************************************************************************)
(* State                                                                   *)
(***************************************************************************)
VARIABLES
    admin_rfid,     \* config.admin_rfid
    dev_mode,       \* rp.dev_mode
    demo_mode,      \* config.demo_mode
    app,            \* __main__: "init" before it runs, "running" once the
                    \* Terminal is built, "fatal" when it ended in an exception,
                    \* "stopping" after on_stop, "exited" after the final block
    enabled,        \* buzzer.enabled
    pin,            \* the level of the buzzer's GPIO pin
    pin_writes,     \* GPIO.output calls on it since Buzzer.__init__
    patterns,       \* the pattern threads: the levels each has still to write
    lastCall,       \* the last call of a Buzzer or RfidProvider method from
                    \* outside, and whether it returned or raised
    rp_cleanups,    \* calls of rp.cleanup() so far
    window_presses, \* presses registered since ClockWidget.press_time was set
    current,        \* app.root.current, the active screen
    pending,        \* the HomeScreen handler the transition under way will
                    \* dispatch when it ends: "on_enter", "on_leave", "none"
    running,        \* HomeScreen.running
    pollPc,         \* where HomeScreen.worker is in read_rfid_loop, "dead": none alive
    pollThreads,    \* the read_rfid_loop threads started and not yet returned
    uid,            \* read_rfid_loop's locals
    session_id,
    success,
    user,
    result,
    evCalls,        \* backend calls of the tag event in progress, oldest first
    evBeeps,        \* buzzer patterns started for it
    evSched,        \* callbacks it handed to Clock.schedule_once
    evFailed,       \* its backend calls whose request failed
    evArgs,         \* the arguments of its backend calls, in the order of evCalls
    clockQueue,     \* Clock.schedule_once(..., 0) callbacks not yet run
    timer,          \* ClockInOutScreen.timer: "pending" while the event is
                    \* scheduled, "idle" when None, fired or cancelled
    shown,          \* ClockInOutScreen: <<clock_in, user_name>> last shown
    message,        \* ErrorScreen.message
    press_counter,  \* ClockWidget.press_counter
    widget_list,    \* CurrentWorkingWidget.widget_list, by label text
    worker,         \* CurrentWorkingWidget.worker: a thread id, 0 for None
    alive,          \* the update_widgets threads that are alive
    mock_users,     \* self.mock_users of a mock DataProvider
    mock_ret        \* the last call of its methods and what it returned

config == <<admin_rfid, dev_mode, demo_mode>>
devices == <<enabled, pin, pin_writes, patterns, lastCall, rp_cleanups>>
screen == <<current, pending>>
locals == <<uid, session_id, success, user, result>>
event == <<evCalls, evBeeps, evSched, evFailed, evArgs>>
pollVars == <<pollPc, pollThreads, locals, event>>
clockScreen == <<timer, shown>>
rosterThreads == <<worker, alive>>
rosterVars == <<rosterThreads, widget_list>>
mock == <<mock_users, mock_ret>>
vars == <<config, mock, app, devices, window_presses, screen, running, pollVars, clockQueue, clockScreen, message,
          press_counter, rosterVars>>

Screens == {"home", "clock", "error", "admin"}

(***************************************************************************)
(* The UI thread (Kivy main loop): screen changes, Clock callbacks,        *)
(* timers and touches.  Every action below is one callback run to its end. *)
(*                                                                         *)
(* The fields of ClockInOutScreen and ErrorScreen are kept while the       *)
(* screen is the active one: every path that shows the screen sets them    *)
(* first, so what they hold while another screen is shown is never read.   *)
(***************************************************************************)
NotShown == <<FALSE, <<>> >>
NoMessage == <<>>

\* app.root.current = name.  ScreenManager starts the transition to the new
\* screen, dropping one still under way; the same name changes nothing.  The
\* transition dispatches on_enter of the new and on_leave of the old screen
\* when it ends, and only HomeScreen has handlers that touch this state.
SetCurrent(name) ==
    IF name = current
    THEN UNCHANGED screen
    ELSE /\ current' = name
         /\ pending' = IF name = "home" THEN "on_enter"
                       ELSE IF current = "home" THEN "on_leave"
                       ELSE "none"

\* change_screen(name, data), up to the call of show(data)
change_screen(name) ==
    /\ SetCurrent(name)
    /\ name # "clock" => shown' = NotShown
    /\ name # "error" => message' = NoMessage

\* A mutant of on_enter: a new thread whether or not the worker is alive.
on_enter_Unguarded ==
    /\ running' = TRUE
    /\ pollPc' = "loop"
    /\ pollThreads' = pollThreads + 1

\* HomeScreen.on_enter
on_enter ==
    /\ running' = TRUE
    /\ IF pollPc # "dead"
       THEN UNCHANGED <<pollPc, pollThreads>>
       ELSE pollPc' = "loop" /\ pollThreads' = pollThreads + 1

\* HomeScreen.on_leave
on_leave ==
    /\ running' = FALSE
    /\ UNCHANGED <<pollPc, pollThreads>>

\* The transition ends and dispatches the handler.
TransitionComplete ==
    /\ pending # "none"
    /\ pending' = "none"
    /\ IF pending = "on_enter" THEN on_enter ELSE on_leave
    /\ UNCHANGED <<config, mock, app, devices, window_presses, current, locals, event, clockQueue, clockScreen,
                   message, press_counter, rosterVars>>

\* A mutant of start_thread: a new thread whether or not one is alive.
start_thread_Unguarded ==
    /\ \E i \in 1..MaxThreads : i \notin alive
    /\ LET t == CHOOSE i \in 1..MaxThreads : i \notin alive IN
       /\ worker' = t
       /\ alive' = alive \cup {t}

\* CurrentWorkingWidget.start_thread
start_thread ==
    IF worker # 0 /\ worker \in alive
    THEN UNCHANGED rosterThreads
    ELSE /\ \E i \in 1..MaxThreads : i \notin alive
         /\ LET t == CHOOSE i \in 1..MaxThreads : i \notin alive IN
            /\ worker' = t
            /\ alive' = alive \cup {t}

\* Clock.schedule_interval(self.start_thread, 15)
RosterTick ==
    /\ app = "running"
    /\ start_thread
    /\ UNCHANGED <<config, mock, app, devices, window_presses, screen, running, pollVars, clockQueue, clockScreen,
                   message, press_counter, widget_list>>

\* CurrentWorkingWidget.update_widgets_main_thread, with
\* remove_working_employees and add_working_employees
remove_list(old, new) == NotAnyIn(old, new)
add_list(old, new) == NotAnyIn(new, old)
\* A mutant of update_widgets_main_thread: every label is removed and the
\* fetched ones are added.
update_widgets_main_thread_Rebuild(new_widgets) ==
    widget_list' = new_widgets

\* A mutant of update_widgets_main_thread: nothing is removed.
update_widgets_main_thread_AddOnly(new_widgets) ==
    widget_list' = widget_list \o add_list(widget_list, new_widgets)

update_widgets_main_thread(new_widgets) ==
    LET remove == remove_list(widget_list, new_widgets)
        add == add_list(widget_list, new_widgets)
    IN widget_list' = NotAnyIn(widget_list, remove) \o add

\* Mutants of show: the other image, no refresh of the roster, no timer.
show_OtherImage(clock_in, name) ==
    /\ shown' = <<~clock_in, IF Truthy(name) THEN name ELSE <<>> >>
    /\ start_thread
    /\ timer' = "pending"

show_NoRefresh(clock_in, name) ==
    /\ shown' = <<clock_in, IF Truthy(name) THEN name ELSE <<>> >>
    /\ UNCHANGED rosterThreads
    /\ timer' = "pending"

show_NoTimer(clock_in, name) ==
    /\ shown' = <<clock_in, IF Truthy(name) THEN name ELSE <<>> >>
    /\ start_thread
    /\ UNCHANGED timer

\* ClockInOutScreen.show
show(clock_in, name) ==
    /\ shown' = <<clock_in, IF Truthy(name) THEN name ELSE <<>> >>
    /\ start_thread
    /\ timer' = "pending"

\* HomeScreen.show_clock_screen
show_clock_screen(clock_in, name) ==
    /\ change_screen("clock")
    /\ show(clock_in, name)

\* show_error: change_screen('error', message) and ErrorScreen.show
show_error(msg) ==
    /\ change_screen("error")
    /\ message' = msg

\* The callbacks the workers hand to Clock.schedule_once(..., 0)
AdminCallback == [kind |-> "admin", arg |-> <<>>]
ClockCallback(clock_in, name) == [kind |-> "clock", arg |-> <<clock_in, name>>]
ErrorCallback(msg) == [kind |-> "error", arg |-> msg]
RosterCallback(data) == [kind |-> "roster", arg |-> data]

ServerError == <<"Server error. Please try again.">>
UnknownTag(t) == <<"Unknown tag: ">> \o t

\* The UI thread runs the oldest pending callback.
RunCallback ==
    /\ clockQueue # <<>>
    /\ clockQueue' = Tail(clockQueue)
    /\ LET cb == Head(clockQueue) IN
       CASE cb.kind = "admin" ->
              /\ change_screen("admin")
              /\ UNCHANGED <<timer, rosterVars>>
         [] cb.kind = "clock" ->
              /\ show_clock_screen(cb.arg[1], cb.arg[2])
              /\ UNCHANGED widget_list
         [] cb.kind = "error" ->
              /\ show_error(cb.arg)
              /\ UNCHANGED <<timer, rosterVars>>
         [] cb.kind = "roster" ->
              /\ update_widgets_main_thread(cb.arg)
              /\ UNCHANGED <<screen, clockScreen, message, rosterThreads>>
    /\ UNCHANGED <<config, mock, app, devices, window_presses, running, pollVars, press_counter>>

\* The 3 second event armed by ClockInOutScreen.show fires: change_screen('home')
TimerFire ==
    /\ timer = "pending"
    /\ timer' = "idle"
    /\ change_screen("home")
    /\ UNCHANGED <<config, mock, app, devices, window_presses, running, pollVars, clockQueue, press_counter,
                   rosterVars>>

\* ClockInOutScreen.back
\* ClockInOutScreen.back without its timer.cancel()
ClockBack_NoCancel ==
    /\ current = "clock"
    /\ change_screen("home")
    /\ UNCHANGED <<config, mock, app, devices, window_presses, running, pollVars, clockQueue, timer, press_counter, rosterVars>>

ClockBack ==
    /\ current = "clock"
    /\ timer' = "idle"
    /\ change_screen("home")
    /\ UNCHANGED <<config, mock, app, devices, window_presses, running, pollVars, clockQueue, press_counter,
                   rosterVars>>

\* ErrorScreen.back and AdminScreen.back
Back ==
    /\ current \in {"error", "admin"}
    /\ change_screen("home")
    /\ UNCHANGED <<config, mock, app, devices, window_presses, running, pollVars, clockQueue, timer, press_counter,
                   rosterVars>>

\* The window of ClockWidget.on_press, in seconds.
PressWindow == 5

\* A mutant of on_press: the counter is not reset when it reaches 3.
on_press_NoReset(elapsed) ==
    /\ current = "home"
    /\ IF elapsed < PressWindow
       THEN IF press_counter + 1 = 3
            THEN press_counter' = press_counter + 1 /\ change_screen("admin")
            ELSE press_counter' = press_counter + 1
                 /\ UNCHANGED <<screen, shown, message>>
       ELSE press_counter' = 1 /\ UNCHANGED <<screen, shown, message>>
    /\ UNCHANGED <<config, mock, app, devices, running, pollVars, clockQueue, timer, rosterVars>>

\* A mutant of on_press: a press exactly 5 seconds after the window start
\* still counts.
on_press_Inclusive(elapsed) ==
    /\ current = "home"
    /\ IF elapsed <= PressWindow
       THEN IF press_counter + 1 = 3
            THEN press_counter' = 0 /\ change_screen("admin")
            ELSE press_counter' = press_counter + 1
                 /\ UNCHANGED <<screen, shown, message>>
       ELSE press_counter' = 1 /\ UNCHANGED <<screen, shown, message>>
    /\ UNCHANGED <<config, mock, app, devices, running, pollVars, clockQueue, timer, rosterVars>>

\* ClockWidget.on_press, elapsed = current_time - self.press_time.  The else
\* branch restarts the window, so every press can fall on either side of it.
on_press(elapsed) ==
    /\ current = "home"
    /\ IF elapsed < PressWindow
       THEN IF press_counter + 1 = 3
            THEN press_counter' = 0 /\ change_screen("admin")
            ELSE press_counter' = press_counter + 1
                 /\ UNCHANGED <<screen, shown, message>>
       ELSE press_counter' = 1 /\ UNCHANGED <<screen, shown, message>>
    /\ UNCHANGED <<config, mock, app, devices, running, pollVars, clockQueue, timer, rosterVars>>

\* A press on the clock, the presses of the window not counted.
Press(elapsed) == on_press(elapsed) /\ UNCHANGED window_presses

\* A press on the clock, counted: press_time is set by the press that finds
\* the window over, and by nothing else.
PressInWindow(elapsed) ==
    /\ window_presses < MaxPresses
    /\ on_press(elapsed)
    /\ window_presses' = IF elapsed < PressWindow THEN window_presses + 1 ELSE 1

(***************************************************************************)
(* The roster refresh thread: CurrentWorkingWidget.update_widgets          *)
(***************************************************************************)
\* The users GET admin/users can list: (displayName, id, clockedIn)
RosterUser(name, id, clocked) ==
    JDict([displayName |-> name, id |-> id, clockedIn |-> clocked])
UsersOf(names) ==
    {RosterUser(n, <<"1">>, c) : n \in names, c \in {JTrue, JFalse}}

RECURSIVE ListsOver(_, _)
ListsOver(S, n) ==
    IF n = 0 THEN {<<>>}
    ELSE LET shorter == ListsOver(S, n - 1) IN
         shorter \cup {Append(l, x) : l \in shorter, x \in S}

RosterExchanges(names) ==
    {[status |-> 0, body |-> JNone]}
    \cup {[status |-> st, body |-> b] :
            st \in {200, 500},
            b \in {JNone, JInvalid}
                  \cup {JList(l) : l \in ListsOver(UsersOf(names), MaxRoster)}}

\* DataProvider.working_users: list of (name, start_time, user_id)
RECURSIVE working_list(_)
working_list(data) ==
    IF data = <<>> THEN <<>>
    ELSE (IF GetDefault(Head(data).d, "clockedIn", JFalse) = JTrue
          THEN << <<Get(Head(data).d, "displayName"), <<>>, Get(Head(data).d, "id")>> >>
          ELSE <<>>)
         \o working_list(Tail(data))

working_users(resp) ==
    LET r == get(resp) IN
    IF r.raised THEN <<>>
    ELSE IF ~JTruthy(r.val) THEN <<>>
    ELSE IF r.val.kind # "list" THEN <<>>
    ELSE working_list(r.val.d)

\* display_text of one (name, clock_in, user_id)
display_text(w) ==
    LET name == IF w[1] = None THEN <<"Unknown ">> \o w[3] ELSE w[1] IN
    IF Truthy(w[2]) THEN w[2] \o <<" ">> \o name ELSE name

RECURSIVE new_widget_data(_)
new_widget_data(working) ==
    IF working = <<>> THEN <<>>
    ELSE <<display_text(Head(working))>> \o new_widget_data(Tail(working))

Schedule(cb) ==
    /\ Len(clockQueue) < MaxQueue
    /\ clockQueue' = Append(clockQueue, cb)

\* A mutant of update_widgets: the thread changes the labels itself.
update_widgets_Direct(t, names) ==
    /\ t \in alive
    /\ \E working \in {working_users(resp) : resp \in RosterExchanges(names)} :
          update_widgets_main_thread(new_widget_data(working))
    /\ alive' = alive \ {t}
    /\ UNCHANGED <<config, mock, app, devices, window_presses, screen, running, pollVars, clockQueue, clockScreen, message,
                   press_counter, worker>>

\* A mutant of update_widgets: after a failed fetch nothing is handed over
\* and the labels stay as they are.
update_widgets_SkipsFailure(t, names) ==
    /\ t \in alive
    /\ \E resp \in RosterExchanges(names) :
          IF resp.status # 200 \/ resp.body.kind = "invalid"
          THEN UNCHANGED clockQueue
          ELSE Schedule(RosterCallback(new_widget_data(working_users(resp))))
    /\ alive' = alive \ {t}
    /\ UNCHANGED <<config, mock, app, devices, window_presses, screen, running, pollVars, clockScreen, message,
                   press_counter, worker, widget_list>>

update_widgets(t, names) ==
    /\ t \in alive
    /\ \E working \in {working_users(resp) : resp \in RosterExchanges(names)} :
          Schedule(RosterCallback(new_widget_data(working)))
    /\ alive' = alive \ {t}
    /\ UNCHANGED <<config, mock, app, devices, window_presses, screen, running, pollVars, clockScreen, message,
                   press_counter, worker, widget_list>>

(***************************************************************************)
(* The poll thread: HomeScreen.read_rfid_loop.  One action per shared      *)
(* access: a backend call is in flight while the thread stands before the  *)
(* action that takes its answer.  The locals and the record of the tag     *)
(* event are dropped when the iteration ends (they are dead by then).      *)
(***************************************************************************)
Beep(pattern) ==
    evBeeps' = IF buzzer_enabled THEN Append(evBeeps, pattern) ELSE evBeeps

\* The request of __get failed: no connection, a timeout, or a status that
\* is neither 200 nor 404 (the two branches that log an error).
GetFailed(resp) == resp.status \notin {200, 404}
\* The same for __post, which also takes 201.
PostFailed(resp) == resp.status \notin {200, 201, 404}

Call(name, args, failed) ==
    /\ evCalls' = Append(evCalls, name)
    /\ evArgs' = Append(evArgs, args)
    /\ evFailed' = IF failed THEN evFailed \cup {name} ELSE evFailed

ScheduleEvent(cb) == Schedule(cb) /\ evSched' = Append(evSched, cb)

\* A mutant of LoopCheck: the loop does not look at the flag.
LoopCheck_IgnoresFlag ==
    /\ pollPc = "loop"
    /\ pollPc' = "read"
    /\ UNCHANGED <<config, mock, app, devices, window_presses, screen, running, pollThreads, locals, event, clockQueue,
                   clockScreen, message, press_counter, rosterVars>>

\* while self.running:
LoopCheck ==
    /\ pollPc = "loop"
    /\ pollPc' = IF running THEN "read" ELSE "exit"
    /\ UNCHANGED <<config, mock, app, devices, window_presses, screen, running, pollThreads, locals, event, clockQueue,
                   clockScreen, message, press_counter, rosterVars>>

\* uid = rp.read_uid(); if not uid or self.manager.current != 'home'
ReadUid ==
    /\ pollPc = "read"
    /\ \E u \in {read_uid(dev_mode, hw) : hw \in ReaderAnswers} :
          IF ~Truthy(u) \/ current # "home"
          THEN pollPc' = "sleep" /\ UNCHANGED uid
          ELSE pollPc' = "check_reg" /\ uid' = u
    /\ UNCHANGED <<config, mock, app, devices, window_presses, screen, running, pollThreads, session_id, success, user, result, event,
                   clockQueue, clockScreen, message, press_counter, rosterVars>>

\* time.sleep(0.1); continue
SleepPoll ==
    /\ pollPc = "sleep"
    /\ pollPc' = "loop"
    /\ UNCHANGED <<config, mock, app, devices, window_presses, screen, running, pollThreads, locals, event, clockQueue,
                   clockScreen, message, press_counter, rosterVars>>

\* A mutant of CheckRegistration: the admin tag is recognised before the
\* registration check is made.
CheckRegistration_AdminFirst ==
    /\ pollPc = "check_reg"
    /\ IF uid = admin_rfid
       THEN /\ Beep("admin_mode")
            /\ ScheduleEvent(AdminCallback)
            /\ pollPc' = "cooldown"
            /\ UNCHANGED <<session_id, evCalls, evFailed, evArgs>>
       ELSE /\ \E o \in {<<GetFailed(resp), check_registration_mode(resp)>> :
                              resp \in Exchanges(RegistrationBodies)} :
                /\ session_id' = o[2]
                /\ pollPc' = IF Truthy(session_id') THEN "submit" ELSE "admin_check"
                /\ Call("check_registration_mode", <<>>, o[1])
            /\ UNCHANGED <<evBeeps, evSched, clockQueue>>
    /\ UNCHANGED <<config, mock, app, devices, window_presses, screen, running, pollThreads, uid, success, user, result,
                   clockScreen, message, press_counter, rosterVars>>

\* A mutant of CheckRegistration: a check whose request failed is answered
\* with the error pattern and the Error screen.
CheckRegistration_FailClosed ==
    /\ pollPc = "check_reg"
    /\ \E o \in {<<GetFailed(resp), check_registration_mode(resp)>> :
                        resp \in Exchanges(RegistrationBodies)} :
          /\ session_id' = o[2]
          /\ Call("check_registration_mode", <<>>, o[1])
          /\ IF o[1]
             THEN /\ Beep("error")
                  /\ ScheduleEvent(ErrorCallback(ServerError))
                  /\ pollPc' = "cooldown"
             ELSE /\ pollPc' = IF Truthy(session_id') THEN "submit" ELSE "admin_check"
                  /\ UNCHANGED <<evBeeps, evSched, clockQueue>>
    /\ UNCHANGED <<config, mock, app, devices, window_presses, screen, running, pollThreads, uid, success, user, result,
                   clockScreen, message, press_counter, rosterVars>>

\* session_id = dp.check_registration_mode(); if session_id:
CheckRegistration ==
    /\ pollPc = "check_reg"
    /\ \E o \in {<<GetFailed(resp), check_registration_mode(resp)>> :
                        resp \in Exchanges(RegistrationBodies)} :
          /\ session_id' = o[2]
          /\ pollPc' = IF Truthy(session_id') THEN "submit" ELSE "admin_check"
          /\ Call("check_registration_mode", <<>>, o[1])
    /\ UNCHANGED <<config, mock, app, devices, window_presses, screen, running, pollThreads, uid, success, user, result, evBeeps, evSched,
                   clockQueue, clockScreen, message, press_counter, rosterVars>>

\* A mutant of SubmitRegistration: continue without the sleep.
SubmitRegistration_NoSleep ==
    /\ pollPc = "submit"
    /\ \E o \in {<<PostFailed(resp), submit_registration(resp)>> :
                        resp \in Exchanges(SubmitBodies)} :
          /\ success' = o[2]
          /\ IF success'
             THEN Beep("registration_success")
             ELSE Beep("error")
          /\ Call("submit_registration", <<session_id, uid>>, o[1])
    /\ pollPc' = "loop"
    /\ UNCHANGED <<config, mock, app, devices, window_presses, screen, running, pollThreads, uid, session_id, user, result,
                   evSched, clockQueue, clockScreen, message, press_counter,
                   rosterVars>>

\* A mutant of SubmitRegistration: a submission that failed also shows the
\* Error screen.
SubmitRegistration_ShowsError ==
    /\ pollPc = "submit"
    /\ \E o \in {<<PostFailed(resp), submit_registration(resp)>> :
                        resp \in Exchanges(SubmitBodies)} :
          /\ success' = o[2]
          /\ IF success'
             THEN Beep("registration_success") /\ UNCHANGED <<evSched, clockQueue>>
             ELSE Beep("error") /\ ScheduleEvent(ErrorCallback(ServerError))
          /\ Call("submit_registration", <<session_id, uid>>, o[1])
    /\ pollPc' = "cooldown"
    /\ UNCHANGED <<config, mock, app, devices, window_presses, screen, running, pollThreads, uid, session_id, user, result,
                   clockScreen, message, press_counter, rosterVars>>

\* success = dp.submit_registration(session_id, uid), the feedback, sleep(2)
SubmitRegistration ==
    /\ pollPc = "submit"
    /\ \E o \in {<<PostFailed(resp), submit_registration(resp)>> :
                        resp \in Exchanges(SubmitBodies)} :
          /\ success' = o[2]
          /\ IF success'
             THEN Beep("registration_success")
             ELSE Beep("error")
          /\ Call("submit_registration", <<session_id, uid>>, o[1])
    /\ pollPc' = "cooldown"
    /\ UNCHANGED <<config, mock, app, devices, window_presses, screen, running, pollThreads, uid, session_id, user, result,
                   evSched, clockQueue, clockScreen, message, press_counter,
                   rosterVars>>

\* A mutant of AdminCheck: the admin tag is not consumed, the lookup and
\* the punch follow.
AdminCheck_NoConsume ==
    /\ pollPc = "admin_check"
    /\ IF uid = admin_rfid
       THEN /\ Beep("admin_mode")
            /\ ScheduleEvent(AdminCallback)
            /\ pollPc' = "lookup"
       ELSE /\ pollPc' = "lookup"
            /\ UNCHANGED <<evBeeps, evSched, clockQueue>>
    /\ UNCHANGED <<config, mock, app, devices, window_presses, screen, running, pollThreads, locals, evCalls, evFailed, evArgs,
                   clockScreen, message, press_counter, rosterVars>>

\* if hasattr(config, 'admin_rfid') and uid == config.admin_rfid:
AdminCheck ==
    /\ pollPc = "admin_check"
    /\ IF uid = admin_rfid
       THEN /\ Beep("admin_mode")
            /\ ScheduleEvent(AdminCallback)
            /\ pollPc' = "cooldown"
       ELSE /\ pollPc' = "lookup"
            /\ UNCHANGED <<evBeeps, evSched, clockQueue>>
    /\ UNCHANGED <<config, mock, app, devices, window_presses, screen, running, pollThreads, locals, evCalls, evFailed, evArgs,
                   clockScreen,
                   message, press_counter, rosterVars>>

\* A mutant of lookup_outcome: the unknown tag is punched all the same.
lookup_outcome_PunchesUnknown(info) ==
    /\ pollPc' = "punch"
    /\ UNCHANGED <<evBeeps, evSched, clockQueue>>

\* A mutant of lookup_outcome: the feedback is given before the punch.
lookup_outcome_FeedbackFirst(info) ==
    IF info # <<>>
    THEN /\ Beep(IF info[4] = JTrue THEN "clock_out" ELSE "clock_in")
         /\ pollPc' = "punch"
         /\ UNCHANGED <<evSched, clockQueue>>
    ELSE /\ Beep("error")
         /\ ScheduleEvent(ErrorCallback(UnknownTag(uid)))
         /\ pollPc' = "cooldown"

\* if user_info: ... else: the unknown-tag branch
lookup_outcome(info) ==
    IF info # <<>>
    THEN /\ pollPc' = "punch"
         /\ UNCHANGED <<evBeeps, evSched, clockQueue>>
    ELSE /\ Beep("error")
         /\ ScheduleEvent(ErrorCallback(UnknownTag(uid)))
         /\ pollPc' = "cooldown"

\* user_info = dp.user_info(uid)
Lookup ==
    /\ pollPc = "lookup"
    /\ \E o \in {<<GetFailed(resp), user_info(resp)>> :
                        resp \in Exchanges(UserBodies)} :
          /\ user' = o[2]
          /\ lookup_outcome(o[2])
          /\ Call("user_info", <<uid>>, o[1])
    /\ UNCHANGED <<config, mock, app, devices, window_presses, screen, running, pollThreads, uid, session_id, success, result,
                   clockScreen, message, press_counter, rosterVars>>

\* A mutant of punch_outcome: a failed punch is answered from the
\* clocked-in flag of the lookup.
punch_outcome_Fabricates(res) ==
    IF res # <<>>
    THEN IF res[1] = <<"CLOCK_IN">>
         THEN /\ Beep("clock_in")
              /\ ScheduleEvent(ClockCallback(TRUE, res[3]))
         ELSE IF res[1] = <<"CLOCK_OUT">>
         THEN /\ Beep("clock_out")
              /\ ScheduleEvent(ClockCallback(FALSE, res[3]))
         ELSE /\ Beep("warning")
              /\ UNCHANGED <<evSched, clockQueue>>
    ELSE IF user[4] = JTrue
         THEN /\ Beep("clock_out")
              /\ ScheduleEvent(ClockCallback(FALSE, user[1]))
         ELSE /\ Beep("clock_in")
              /\ ScheduleEvent(ClockCallback(TRUE, user[1]))

\* A mutant of punch_outcome: an action that is neither CLOCK_IN nor
\* CLOCK_OUT is answered like a failed punch.
punch_outcome_UnknownAsError(res) ==
    IF res # <<>> /\ res[1] = <<"CLOCK_IN">>
    THEN /\ Beep("clock_in")
         /\ ScheduleEvent(ClockCallback(TRUE, res[3]))
    ELSE IF res # <<>> /\ res[1] = <<"CLOCK_OUT">>
    THEN /\ Beep("clock_out")
         /\ ScheduleEvent(ClockCallback(FALSE, res[3]))
    ELSE /\ Beep("error")
         /\ ScheduleEvent(ErrorCallback(ServerError))

\* A mutant of punch_outcome: the result is dropped when the active screen
\* is no longer Home.
punch_outcome_DropsOffHome(res) ==
    IF current # "home"
    THEN UNCHANGED <<evBeeps, evSched, clockQueue>>
    ELSE IF res # <<>>
    THEN IF res[1] = <<"CLOCK_IN">>
         THEN /\ Beep("clock_in")
              /\ ScheduleEvent(ClockCallback(TRUE, res[3]))
         ELSE IF res[1] = <<"CLOCK_OUT">>
         THEN /\ Beep("clock_out")
              /\ ScheduleEvent(ClockCallback(FALSE, res[3]))
         ELSE /\ Beep("warning")
              /\ UNCHANGED <<evSched, clockQueue>>
    ELSE /\ Beep("error")
         /\ ScheduleEvent(ErrorCallback(ServerError))

\* if result: action, message, display_name = result ... else: punch failed
punch_outcome(res) ==
    IF res # <<>>
    THEN IF res[1] = <<"CLOCK_IN">>
         THEN /\ Beep("clock_in")
              /\ ScheduleEvent(ClockCallback(TRUE, res[3]))
         ELSE IF res[1] = <<"CLOCK_OUT">>
         THEN /\ Beep("clock_out")
              /\ ScheduleEvent(ClockCallback(FALSE, res[3]))
         ELSE /\ Beep("warning")
              /\ UNCHANGED <<evSched, clockQueue>>
    ELSE /\ Beep("error")
         /\ ScheduleEvent(ErrorCallback(ServerError))

\* result = dp.punch(uid)
Punch ==
    /\ pollPc = "punch"
    /\ \E o \in {<<PostFailed(resp), punch(resp)>> :
                        resp \in Exchanges(PunchBodies)} :
          /\ result' = o[2]
          /\ punch_outcome(o[2])
          /\ Call("punch", <<uid>>, o[1])
    /\ pollPc' = "cooldown"
    /\ UNCHANGED <<config, mock, app, devices, window_presses, screen, running, pollThreads, uid, session_id, success, user,
                   clockScreen, message, press_counter, rosterVars>>

\* The sleep that ends the iteration of a tag event: 2 s after a
\* registration, 1 s after the admin tag, 1.5 s after a punch or an error.
Cooldown ==
    /\ pollPc = "cooldown"
    /\ pollPc' = "loop"
    /\ uid' = <<>> /\ session_id' = None /\ user' = <<>> /\ result' = <<>>
    /\ success' = FALSE
    /\ evCalls' = <<>> /\ evBeeps' = <<>> /\ evSched' = <<>> /\ evFailed' = {}
    /\ evArgs' = <<>>
    /\ UNCHANGED <<config, mock, app, devices, window_presses, screen, running, pollThreads, clockQueue, clockScreen, message,
                   press_counter, rosterVars>>

\* The points of an iteration, all inside the try of read_rfid_loop.
InTry ==
    {"read", "sleep", "check_reg", "submit", "admin_check", "lookup", "punch",
     "cooldown"}

\* An exception is raised at the point of the iteration the thread stands
\* at, and control goes to the except clause of the loop.
Raise ==
    /\ pollPc \in InTry
    /\ pollPc' = "except"
    /\ UNCHANGED <<config, mock, app, devices, window_presses, screen, running, pollThreads, locals,
                   event, clockQueue, clockScreen, message, press_counter, rosterVars>>

\* A mutant of ExceptPause: the exception ends the thread.
ExceptPause_Terminates ==
    /\ pollPc = "except"
    /\ pollPc' = "dead"
    /\ pollThreads' = pollThreads - 1
    /\ UNCHANGED <<config, mock, app, devices, window_presses, screen, running, locals, event,
                   clockQueue, clockScreen, message, press_counter, rosterVars>>

\* except Exception as e: Logger.error(...); time.sleep(1), and the next
\* test of the while
ExceptPause ==
    /\ pollPc = "except"
    /\ pollPc' = "loop"
    /\ uid' = <<>> /\ session_id' = None /\ user' = <<>> /\ result' = <<>>
    /\ success' = FALSE
    /\ evCalls' = <<>> /\ evBeeps' = <<>> /\ evSched' = <<>> /\ evFailed' = {}
    /\ evArgs' = <<>>
    /\ UNCHANGED <<config, mock, app, devices, window_presses, screen, running, pollThreads,
                   clockQueue, clockScreen, message, press_counter, rosterVars>>

\* An exception inside update_widgets: its except clause logs it and the
\* thread ends with nothing handed to the Kivy clock.
update_widgets_raises(t) ==
    /\ t \in alive
    /\ alive' = alive \ {t}
    /\ UNCHANGED <<config, mock, app, devices, window_presses, screen, running, pollVars,
                   clockQueue, clockScreen, message, press_counter, worker, widget_list>>

\* The loop has ended; the thread returns and is no longer alive.
Exit ==
    /\ pollPc = "exit"
    /\ pollPc' = "dead"
    /\ pollThreads' = pollThreads - 1
    /\ UNCHANGED <<config, mock, app, devices, window_presses, screen, running, locals, event, clockQueue,
                   clockScreen, message, press_counter, rosterVars>>

(***************************************************************************)
(* The buzzer and the reader as devices: the calls from outside, and the   *)
(* pattern threads the buzzer starts.  GPIO may raise on every access.     *)
(***************************************************************************)
NoPatterns == [t \in 1..MaxPatterns |-> <<>>]
NoCall == [op |-> "none", outcome |-> "returned"]

\* A mutant of start_pattern: the pattern is played by the caller.
start_pattern_Blocking(name) ==
    IF ~enabled
    THEN UNCHANGED <<patterns, pin, pin_writes>>
    ELSE /\ pin_writes + 2 * PatternBeeps(name) <= MaxWrites
         /\ pin' = "LOW"
         /\ pin_writes' = pin_writes + 2 * PatternBeeps(name)
         /\ UNCHANGED patterns

\* Buzzer.<name>(): if not self.enabled: return; Thread(target=
\* self._<name>_pattern, daemon=True).start()
start_pattern(name) ==
    IF ~enabled
    THEN UNCHANGED <<patterns, pin, pin_writes>>
    ELSE /\ \E t \in 1..MaxPatterns : patterns[t] = <<>>
         /\ LET t == CHOOSE i \in 1..MaxPatterns : patterns[i] = <<>> IN
            patterns' = [patterns EXCEPT ![t] = Levels(PatternBeeps(name))]
         /\ UNCHANGED <<pin, pin_writes>>

\* A pattern method of the buzzer is called.
PatternCall(name) ==
    /\ app = "running"
    /\ start_pattern(name)
    /\ lastCall' = [op |-> name, outcome |-> "returned"]
    /\ UNCHANGED <<config, mock, app, enabled, rp_cleanups, window_presses, screen, running,
                   pollVars, clockQueue, clockScreen, message, press_counter, rosterVars>>

\* A mutant of BeepStep: beep puts back the level it found on the pin instead
\* of writing LOW.
BeepStep_Restores(t, raises) ==
    /\ patterns[t] # <<>>
    /\ IF raises
       THEN /\ patterns' = [patterns EXCEPT ![t] =
                  IF Head(@) = "HIGH" THEN Tail(Tail(@)) ELSE Tail(@)]
            /\ UNCHANGED <<pin, pin_writes>>
       ELSE /\ pin_writes < MaxWrites
            /\ pin' = Head(patterns[t])
            /\ pin_writes' = pin_writes + 1
            /\ patterns' = [patterns EXCEPT ![t] =
                  IF Head(@) = "HIGH" THEN <<pin>> \o Tail(Tail(@)) ELSE Tail(@)]
    /\ UNCHANGED <<config, mock, app, enabled, lastCall, rp_cleanups, window_presses, screen,
                   running, pollVars, clockQueue, clockScreen, message, press_counter,
                   rosterVars>>

\* A pattern thread reaches the next GPIO.output of Buzzer.beep.  When the
\* call raises, beep logs it and returns, and the pattern goes on with the
\* beep after it.
BeepStep(t, raises) ==
    /\ patterns[t] # <<>>
    /\ IF raises
       THEN /\ patterns' = [patterns EXCEPT ![t] =
                  IF Head(@) = "HIGH" THEN Tail(Tail(@)) ELSE Tail(@)]
            /\ UNCHANGED <<pin, pin_writes>>
       ELSE /\ pin_writes < MaxWrites
            /\ pin' = Head(patterns[t])
            /\ pin_writes' = pin_writes + 1
            /\ patterns' = [patterns EXCEPT ![t] = Tail(@)]
    /\ UNCHANGED <<config, mock, app, enabled, lastCall, rp_cleanups, window_presses, screen,
                   running, pollVars, clockQueue, clockScreen, message, press_counter,
                   rosterVars>>

\* Buzzer.cleanup
BuzzerCleanup(raises) ==
    /\ app = "running"
    /\ IF ~enabled \/ raises
       THEN UNCHANGED <<pin, pin_writes>>
       ELSE /\ pin_writes < MaxWrites
            /\ pin' = "LOW"
            /\ pin_writes' = pin_writes + 1
    /\ lastCall' = [op |-> "buzzer.cleanup", outcome |-> "returned"]
    /\ UNCHANGED <<config, mock, app, enabled, patterns, rp_cleanups, window_presses, screen,
                   running, pollVars, clockQueue, clockScreen, message, press_counter,
                   rosterVars>>

\* A mutant of cleanup: no dev_mode test and no try around reader.cleanup().
cleanup_Unguarded(dev, raises) ==
    IF dev \/ raises THEN "raised" ELSE "returned"

\* RfidProvider.cleanup: how the call ends.  In dev mode it returns at
\* once; an exception of reader.cleanup() is logged.
cleanup(dev, raises) ==
    IF dev THEN "returned"
    ELSE IF raises THEN "returned"
    ELSE "returned"

\* rp.cleanup() is called.
RpCleanup(raises) ==
    /\ app = "running"
    /\ rp_cleanups < MaxCleanups
    /\ rp_cleanups' = rp_cleanups + 1
    /\ lastCall' = [op |-> "rp.cleanup", outcome |-> cleanup(dev_mode, raises)]
    /\ UNCHANGED <<config, mock, app, enabled, pin, pin_writes, patterns, window_presses, screen,
                   running, pollVars, clockQueue, clockScreen, message, press_counter,
                   rosterVars>>

\* What became of the reader's hardware cleanup inside rp.cleanup().
reader_cleanup(dev, raises) ==
    IF dev THEN "skipped" ELSE IF raises THEN "failed" ELSE "done"

\* A mutant of on_stop: no try around either cleanup and the reader's own
\* failure not caught, so a failing reader ends on_stop before the buzzer.
on_stop_Unguarded(hw_raises, gpio_raises) ==
    /\ app = "running"
    /\ rp_cleanups < MaxCleanups
    /\ rp_cleanups' = rp_cleanups + 1
    /\ app' = "stopping"
    /\ IF cleanup_Unguarded(FALSE, ~dev_mode /\ hw_raises) = "raised"
       THEN /\ UNCHANGED <<pin, pin_writes>>
            /\ lastCall' = [op |-> "on_stop", outcome |-> "raised",
                            reader |-> reader_cleanup(dev_mode, hw_raises)]
       ELSE /\ IF ~enabled \/ gpio_raises
               THEN UNCHANGED <<pin, pin_writes>>
               ELSE /\ pin_writes < MaxWrites
                    /\ pin' = "LOW"
                    /\ pin_writes' = pin_writes + 1
            /\ lastCall' = [op |-> "on_stop", outcome |-> "returned",
                            reader |-> reader_cleanup(dev_mode, hw_raises)]
    /\ UNCHANGED <<config, mock, enabled, patterns, window_presses, screen,
                   running, pollVars, clockQueue, clockScreen, message, press_counter,
                   rosterVars>>

\* Terminal.on_stop: try: rp.cleanup() except: log; try: buzzer.cleanup()
\* except: log.  rp.cleanup() catches the failure of the reader itself, and
\* whatever it let through the first try would catch; buzzer.cleanup()
\* follows in every case.
on_stop(hw_raises, gpio_raises) ==
    /\ app = "running"
    /\ rp_cleanups < MaxCleanups
    /\ rp_cleanups' = rp_cleanups + 1
    /\ app' = "stopping"
    /\ IF ~enabled \/ gpio_raises
       THEN UNCHANGED <<pin, pin_writes>>
       ELSE /\ pin_writes < MaxWrites
            /\ pin' = "LOW"
            /\ pin_writes' = pin_writes + 1
    /\ lastCall' = [op |-> "on_stop",
                    outcome |-> cleanup(dev_mode, hw_raises),
                    reader |-> reader_cleanup(dev_mode, hw_raises)]
    /\ UNCHANGED <<config, mock, enabled, patterns, window_presses, screen,
                   running, pollVars, clockQueue, clockScreen, message, press_counter,
                   rosterVars>>

\* The finally block of __main__, after run() returned or after the fatal
\* error: if rp: try rp.cleanup(); if buzzer: try buzzer.cleanup().  After the
\* fatal error of the model (no health_check) rp and buzzer are still None.
final_cleanup(hw_raises, gpio_raises) ==
    /\ app \in {"stopping", "fatal"}
    /\ app' = "exited"
    /\ IF app = "fatal"
       THEN UNCHANGED <<pin, pin_writes, lastCall, rp_cleanups>>
       ELSE /\ rp_cleanups < MaxCleanups
            /\ rp_cleanups' = rp_cleanups + 1
            /\ IF ~enabled \/ gpio_raises
               THEN UNCHANGED <<pin, pin_writes>>
               ELSE /\ pin_writes < MaxWrites
                    /\ pin' = "LOW"
                    /\ pin_writes' = pin_writes + 1
            /\ lastCall' = [op |-> "finally",
                            outcome |-> cleanup(dev_mode, hw_raises),
                            reader |-> reader_cleanup(dev_mode, hw_raises)]
    /\ UNCHANGED <<config, mock, enabled, patterns, window_presses, screen,
                   running, pollVars, clockQueue, clockScreen, message, press_counter,
                   rosterVars>>

(***************************************************************************)
(* The mock DataProvider, called method by method.                         *)
(***************************************************************************)
\* ret: what a call returned, "list" standing for the list kept in working.
NoMockCall == [op |-> "none", arg |-> "", ret |-> "None", working |-> <<>>]

\* dp.clock_in(user_id) on the mock
MockClockIn(user_id) ==
    /\ mock_users' = mock_clock_in(mock_users, user_id).users
    /\ mock_ret' = [op |-> "clock_in", arg |-> user_id,
                    ret |-> mock_clock_in(mock_users, user_id).ret,
                    working |-> <<>>]
    /\ UNCHANGED <<config, app, devices, window_presses, screen, running, pollVars,
                   clockQueue, clockScreen, message, press_counter, rosterVars>>

\* dp.clock_out(user_id) on the mock
MockClockOut(user_id) ==
    /\ mock_users' = mock_clock_out(mock_users, user_id).users
    /\ mock_ret' = [op |-> "clock_out", arg |-> user_id,
                    ret |-> mock_clock_out(mock_users, user_id).ret,
                    working |-> <<>>]
    /\ UNCHANGED <<config, app, devices, window_presses, screen, running, pollVars,
                   clockQueue, clockScreen, message, press_counter, rosterVars>>

\* dp.working_users() on the mock
MockWorkingUsers ==
    /\ mock_ret' = [op |-> "working_users", arg |-> "", ret |-> "list",
                    working |-> mock_working_users(mock_users)]
    /\ UNCHANGED <<config, mock_users, app, devices, window_presses, screen, running,
                   pollVars, clockQueue, clockScreen, message, press_counter,
                   rosterVars>>

(***************************************************************************)
(* The terminal                                                            *)
(***************************************************************************)
\* __main__: the data provider and its health check, the reader, the buzzer
\* and its startup pattern, then Terminal(...).run(), which builds the
\* screens with Home the active one and the roster widget with its first
\* refresh.  An exception on the way is fatal.
Main ==
    /\ app = "init"
    /\ IF "health_check" \notin Operations(demo_mode)
       THEN /\ app' = "fatal"
            /\ UNCHANGED <<devices, screen, rosterThreads>>
       ELSE /\ app' = "running"
            /\ start_pattern("success")
            /\ lastCall' = [op |-> "success", outcome |-> "returned"]
            /\ current' = "home"
            /\ pending' = "on_enter"
            /\ start_thread
            /\ UNCHANGED <<enabled, rp_cleanups>>
    /\ UNCHANGED <<config, mock, window_presses, running, pollVars, clockQueue, clockScreen,
                   message, press_counter, widget_list>>

\* The names the roster of the terminal's specification is drawn from.
TerminalNames == {<<"A">>}

\* Before __main__ runs.  The modes of the reader and of the buzzer are
\* what their constructors will find.
Startup ==
    /\ admin_rfid \in {ShippedAdminRfid, JoinStr(AdminCard)}
    /\ dev_mode \in BOOLEAN
    /\ demo_mode \in BOOLEAN
    /\ app = "init"
    /\ pin = "LOW" /\ pin_writes = 0 /\ patterns = NoPatterns
    /\ lastCall = NoCall
    /\ rp_cleanups = 0
    /\ window_presses = 0
    /\ current = "none"
    /\ pending = "none"
    /\ running = FALSE
    /\ pollPc = "dead"
    /\ pollThreads = 0
    /\ uid = <<>> /\ session_id = None /\ user = <<>> /\ result = <<>>
    /\ success = FALSE
    /\ evCalls = <<>> /\ evBeeps = <<>> /\ evSched = <<>> /\ evFailed = {}
    /\ evArgs = <<>>
    /\ clockQueue = <<>>
    /\ timer = "idle"
    /\ shown = NotShown
    /\ message = NoMessage
    /\ press_counter = 0
    /\ widget_list = <<>>
    /\ worker = 0
    /\ alive = {}
    /\ mock_users = MockUsers
    /\ mock_ret = NoMockCall

\* The terminal with a working buzzer.
Init == Startup /\ enabled = TRUE

Next ==
    \/ Main
    \/ TransitionComplete
    \/ RunCallback
    \/ TimerFire
    \/ ClockBack
    \/ Back
    \/ \E elapsed \in {0, PressWindow} : Press(elapsed)
    \/ RosterTick
    \/ \E t \in 1..MaxThreads : update_widgets(t, TerminalNames)
    \/ LoopCheck
    \/ ReadUid
    \/ SleepPoll
    \/ CheckRegistration
    \/ SubmitRegistration
    \/ AdminCheck
    \/ Lookup
    \/ Punch
    \/ Cooldown
    \/ Exit

Spec == Init /\ [][Next]_vars

\* The Kivy clock runs every event it holds: the 3 second event of
\* ClockInOutScreen.show fires unless it is cancelled first.
FairSpec == Spec /\ WF_vars(TimerFire)

\* The poll thread is scheduled whenever it can take a step: its sleeps end,
\* the reader answers, every backend call ends by its 5 second timeout.  The
\* Kivy clock runs the callbacks it holds.  The roster refresher is left
\* out: it shares nothing with the poll thread but the Kivy clock, whose
\* schedule_once never makes a caller wait, while here its callbacks would
\* compete for the bounded room of clockQueue.
PollNext ==
    \/ LoopCheck
    \/ ReadUid
    \/ SleepPoll
    \/ CheckRegistration
    \/ SubmitRegistration
    \/ AdminCheck
    \/ Lookup
    \/ Punch
    \/ Cooldown
    \/ Exit

NextPoll ==
    \/ Main
    \/ TransitionComplete
    \/ RunCallback
    \/ TimerFire
    \/ ClockBack
    \/ Back
    \/ \E elapsed \in {0, PressWindow} : Press(elapsed)
    \/ PollNext

FairPollSpec ==
    Init /\ [][NextPoll]_vars /\ WF_vars(PollNext) /\ WF_vars(RunCallback)

(***************************************************************************)
(* The roster refresher alone, over three names.                           *)
(***************************************************************************)
RosterNames == {<<"A">>, <<"B">>, <<"C">>}

NextRoster ==
    \/ Main
    \/ RosterTick
    \/ \E t \in 1..MaxThreads : update_widgets(t, RosterNames)
    \/ RunCallback

SpecRoster == Init /\ [][NextRoster]_vars

(***************************************************************************)
(* The terminal with exceptions raised inside the workers.                 *)
(***************************************************************************)
NextFaults ==
    \/ Next
    \/ Raise
    \/ ExceptPause
    \/ \E t \in 1..MaxThreads : update_widgets_raises(t)

SpecFaults == Init /\ [][NextFaults]_vars

(***************************************************************************)
(* The devices: the buzzer and the reader called from outside while the    *)
(* poll loop finds no tag.                                                 *)
(***************************************************************************)
InitDevices ==
    /\ Startup
    /\ enabled \in {Buzzer_init(mode, buzzer_pin, raises) :
                      mode \in GpioModes, raises \in BOOLEAN}

NextDevices ==
    \/ Main
    \/ TransitionComplete
    \/ LoopCheck
    \/ ReadUid
    \/ SleepPoll
    \/ \E name \in PatternNames : PatternCall(name)
    \/ \E t \in 1..MaxPatterns, raises \in BOOLEAN : BeepStep(t, raises)
    \/ \E raises \in BOOLEAN : BuzzerCleanup(raises)
    \/ \E raises \in BOOLEAN : RpCleanup(raises)

SpecDevices == InitDevices /\ [][NextDevices]_vars

(***************************************************************************)
(* The buzzer on a pin whose writes succeed: pattern calls from any thread *)
(* and the pattern threads, interleaved write by write.                    *)
(***************************************************************************)
NextBuzzer ==
    \/ Main
    \/ \E name \in PatternNames : PatternCall(name)
    \/ \E t \in 1..MaxPatterns : BeepStep(t, FALSE)
    \/ BuzzerCleanup(FALSE)

SpecBuzzer == Init /\ [][NextBuzzer]_vars

(***************************************************************************)
(* The terminal stopping: on_stop and the final block of __main__, with    *)
(* pattern threads still playing and the devices failing or not.           *)
(***************************************************************************)
NextStop ==
    \/ Main
    \/ \E name \in PatternNames : PatternCall(name)
    \/ \E t \in 1..MaxPatterns, raises \in BOOLEAN : BeepStep(t, raises)
    \/ \E hw_raises \in BOOLEAN, gpio_raises \in BOOLEAN :
          on_stop(hw_raises, gpio_raises)
    \/ \E hw_raises \in BOOLEAN, gpio_raises \in BOOLEAN :
          final_cleanup(hw_raises, gpio_raises)

SpecStop == InitDevices /\ [][NextStop]_vars

(***************************************************************************)
(* The mock DataProvider on its own, as a test of it would call it.        *)
(***************************************************************************)
NextMock ==
    \/ \E user_id \in MockIds : MockClockIn(user_id)
    \/ \E user_id \in MockIds : MockClockOut(user_id)
    \/ MockWorkingUsers

SpecMock == Init /\ [][NextMock]_vars

(***************************************************************************)
(* The presses on the clock, counted by window.                            *)
(***************************************************************************)
NextPress ==
    \/ Main
    \/ TransitionComplete
    \/ Back
    \/ \E elapsed \in {0, PressWindow} : PressInWindow(elapsed)

SpecPress == Init /\ [][NextPress]_vars

(***************************************************************************)
(* Properties                                                              *)
(***************************************************************************)
\* The UI thread runs a pending callback of this kind in this step.
Runs(kind) ==
    /\ clockQueue # <<>>
    /\ Head(clockQueue).kind = kind
    /\ clockQueue' = Tail(clockQueue)

InSeq(x, s) == \E i \in 1..Len(s) : s[i] = x
Count(x, s) == Cardinality({i \in 1..Len(s) : s[i] = x})

\* The poll thread is between two tag events.
BetweenEvents == pollPc \in {"dead", "loop", "read", "sleep", "exit"}

\* C1: the registration check is the first step of every tag event, and a
\* scan for which it returned a session goes to submit_registration only:
\* no admin feedback, no Admin screen, no user_info and no punch, also when
\* the UID is the configured admin tag.
C1_RegistrationFirst ==
    /\ (~BetweenEvents /\ pollPc # "check_reg") =>
          (evCalls # <<>> /\ Head(evCalls) = "check_registration_mode")
    /\ (~BetweenEvents /\ Truthy(session_id)) =>
          /\ pollPc \in {"submit", "cooldown"}
          /\ evSched = <<>>
          /\ pollPc = "submit" =>
                evCalls = <<"check_registration_mode">> /\ evBeeps = <<>>
          /\ pollPc = "cooldown" =>
                /\ evCalls = <<"check_registration_mode", "submit_registration">>
                /\ evBeeps \in {<<"registration_success">>, <<"error">>}
    /\ pollPc \in {"admin_check", "lookup", "punch"} => ~Truthy(session_id)

C1_Witness ==
    /\ pollPc = "cooldown"
    /\ Truthy(session_id)
    /\ uid = admin_rfid
    /\ InSeq("submit_registration", evCalls)

\* C2: a tag event makes each backend call at most once and starts at most
\* one feedback pattern and one callback, and the poll thread stands before
\* a read of the Tag Reader only when no tag event is still in progress or
\* in its cooldown.
C2_OneActionPerCooldown ==
    /\ \A c \in {"check_registration_mode", "submit_registration",
                 "user_info", "punch"} : Count(c, evCalls) <= 1
    /\ Len(evBeeps) <= 1
    /\ Len(evSched) <= 1
    /\ BetweenEvents =>
          /\ evCalls = <<>> /\ evBeeps = <<>> /\ evSched = <<>> /\ evFailed = {}
          /\ uid = <<>> /\ user = <<>> /\ result = <<>>

C2_Witness ==
    /\ pollPc = "cooldown"
    /\ evCalls = <<"check_registration_mode", "user_info", "punch">>
    /\ Len(evBeeps) = 1

\* C3: every backend call and every buzzer pattern of the poll loop is made
\* while Home is the active screen.
C3_NoProcessingOffHome ==
    [][(Len(evCalls') > Len(evCalls) \/ Len(evBeeps') > Len(evBeeps))
          => current = "home"]_vars

\* C4: a tag whose lookup came back empty gets the error pattern and one
\* Error callback whose message ends in that tag, and no punch; the callback
\* makes Error the active screen with that message.
C4_UnknownTag ==
    /\ [](  (pollPc = "cooldown" /\ InSeq("user_info", evCalls) /\ user = <<>>)
            => /\ evBeeps = <<"error">>
               /\ Len(evSched) = 1
               /\ evSched[1].kind = "error"
               /\ Tail(evSched[1].arg) = uid
               /\ Head(evSched[1].arg) = "Unknown tag: "
               /\ ~InSeq("punch", evCalls))
    /\ [][Runs("error")
            => current' = "error" /\ message' = Head(clockQueue).arg]_vars

C4_Witness ==
    /\ current = "error"
    /\ Len(message) > 1
    /\ Tail(message) = JoinStr(UserCard)

\* C5: a punch answered CLOCK_IN starts the clock_in pattern, and nothing
\* else, and hands over one callback that shows ClockFeedback(true, name);
\* CLOCK_OUT likewise with clock_out and ClockFeedback(false, name).
ClockAction(a) == pollPc = "cooldown" /\ result # <<>> /\ result[1] = a

C6_ReturnsHome == (current = "clock") ~> (current = "home")

C6_Witness == current = "clock" /\ timer = "pending"

\* C7: applying a fetched roster N to the displayed list P removes exactly
\* the texts of P that are not in N and adds exactly the texts of N that
\* are not in P; the labels of P that stay keep their place, and the added
\* ones follow them in the order of N.
RECURSIVE Keep(_, _)
Keep(s, S) ==
    IF s = <<>> THEN <<>>
    ELSE (IF Head(s) \in S THEN <<Head(s)>> ELSE <<>>) \o Keep(Tail(s), S)

C7_RosterDiff ==
    [][Runs("roster") =>
         LET P == widget_list
             N == Head(clockQueue).arg
             kept == Keep(P, SeqToSet(N))
         IN /\ SeqToSet(P) \ SeqToSet(widget_list') = SeqToSet(P) \ SeqToSet(N)
            /\ SeqToSet(widget_list') \ SeqToSet(P) = SeqToSet(N) \ SeqToSet(P)
            /\ Len(widget_list') >= Len(kept)
            /\ SubSeq(widget_list', 1, Len(kept)) = kept
            /\ SubSeq(widget_list', Len(kept) + 1, Len(widget_list'))
                  = Keep(N, SeqToSet(N) \ SeqToSet(P))]_vars

C7_Witness ==
    /\ widget_list = <<<<"A">>, <<"B">>>>
    /\ clockQueue = <<RosterCallback(<<<<"B">>, <<"C">>>>)>>

\* C8: at most one update_widgets thread is alive; start_thread changes
\* nothing while its worker is alive, and a thread starts only in a step
\* that calls start_thread with no worker alive.
StartsThread == \E t \in alive' : t \notin alive
CallsStartThread == Main \/ RosterTick \/ Runs("clock")

C8_OneRefresh ==
    /\ [](Cardinality(alive) <= 1)
    /\ [][(CallsStartThread /\ worker \in alive) => UNCHANGED rosterThreads]_vars
    /\ [][StartsThread => (CallsStartThread /\ worker \notin alive)]_vars

C8_Witness ==
    /\ clockQueue # <<>>
    /\ Head(clockQueue).kind = "clock"
    /\ worker \in alive

\* C9 as claimed: every punch the backend answered hands over the callback
\* that triggers the roster refresh.
PunchAnswered == pollPc = "cooldown" /\ InSeq("punch", evCalls) /\ result # <<>>

C9_RefreshAfterEveryPunch ==
    PunchAnswered => \E i \in 1..Len(evSched) : evSched[i].kind = "clock"

\* C9 amended: a punch answered CLOCK_IN or CLOCK_OUT hands over the
\* show_clock_screen callback, and the step of the UI thread that runs it
\* calls start_thread, so a refresh thread is alive after it; a punch
\* answered with another action hands over nothing.
C9_RefreshAfterClockInOut ==
    /\ [](PunchAnswered =>
            IF result[1] \in {<<"CLOCK_IN">>, <<"CLOCK_OUT">>}
            THEN Len(evSched) = 1 /\ evSched[1].kind = "clock"
            ELSE evSched = <<>>)
    /\ [][Runs("clock") =>
            /\ worker' \in alive'
            /\ worker \notin alive => worker' \notin alive]_vars

C9_Witness ==
    /\ current = "clock"
    /\ worker \in alive
    /\ ClockAction(<<"CLOCK_OUT">>)

\* C10: a punch that returned nothing after a lookup that succeeded gets the
\* error pattern and one Error callback with the server error message, and
\* the callback makes Error the active screen with that message.
C10_PunchFailed ==
    /\ [](  (pollPc = "cooldown" /\ InSeq("punch", evCalls) /\ result = <<>>)
            => /\ user # <<>>
               /\ evBeeps = <<"error">>
               /\ evSched = <<ErrorCallback(ServerError)>>)
    /\ [][Runs("error")
            => /\ current' = "error"
               /\ message' = Head(clockQueue).arg
               /\ shown' = NotShown]_vars

C10_Witness ==
    /\ current = "error"
    /\ message = ServerError
    /\ user # <<>>
    /\ user[4] = JTrue

\* C11 as claimed: a lookup whose request failed gets one Error callback
\* whose message is not the unknown-tag message.
C11_LookupFailureDistinct ==
    (pollPc = "cooldown" /\ "user_info" \in evFailed)
        => /\ Len(evSched) = 1
           /\ evSched[1].kind = "error"
           /\ Head(evSched[1].arg) # "Unknown tag: "

\* C12: with no registration session, a scan of the configured admin tag
\* starts the admin pattern and hands over one callback to the Admin
\* screen, after the registration check alone: no user_info and no punch;
\* the callback makes Admin the active screen.
C12_AdminTag ==
    /\ [](  (~BetweenEvents /\ ~Truthy(session_id) /\ uid = admin_rfid)
            => /\ pollPc \in {"check_reg", "admin_check", "cooldown"}
               /\ pollPc = "cooldown" =>
                    /\ evCalls = <<"check_registration_mode">>
                    /\ evBeeps = <<"admin_mode">>
                    /\ evSched = <<AdminCallback>>)
    /\ [][Runs("admin") => current' = "admin"]_vars

C12_Witness ==
    /\ pollPc = "cooldown"
    /\ uid = admin_rfid
    /\ evBeeps = <<"admin_mode">>
    /\ current = "admin"
    /\ clockQueue = <<>>
    /\ press_counter = 0

\* C13: a registration check whose request failed leaves no session, so
\* the scan goes on to the admin comparison, and the step that takes the
\* answer of the check starts no pattern and hands over no callback.
C13_RegistrationCheckFailsOpen ==
    /\ []("check_registration_mode" \in evFailed
            => /\ ~Truthy(session_id)
               /\ pollPc \in {"admin_check", "lookup", "punch", "cooldown"}
               /\ pollPc = "admin_check" => evBeeps = <<>> /\ evSched = <<>>)
    /\ [][(pollPc = "check_reg" /\ pollPc' # "check_reg")
            => UNCHANGED <<evBeeps, evSched, clockQueue, current>>]_vars

C13_Witness ==
    /\ pollPc = "cooldown"
    /\ "check_registration_mode" \in evFailed
    /\ evCalls = <<"check_registration_mode", "user_info", "punch">>
    /\ evBeeps = <<"clock_in">>

\* C14: with a session, the tag is submitted once, with that session id
\* and that tag; the pattern is registration_success when the submission
\* succeeded and error when it did not (a request that failed did not
\* succeed); the event hands over no callback, and the step after the
\* submission is the cooldown.
C14_RegistrationSubmit ==
    /\ []((pollPc = "cooldown" /\ Truthy(session_id))
            => /\ evCalls = <<"check_registration_mode", "submit_registration">>
               /\ evArgs[2] = <<session_id, uid>>
               /\ evBeeps = IF success THEN <<"registration_success">>
                            ELSE <<"error">>
               /\ "submit_registration" \in evFailed => ~success
               /\ evSched = <<>>)
    /\ [][(pollPc = "submit" /\ pollPc' # "submit")
            => pollPc' = "cooldown" /\ UNCHANGED <<clockQueue, current>>]_vars

C14_Witness ==
    /\ pollPc = "cooldown"
    /\ Truthy(session_id)
    /\ success
    /\ current = "home"

OtherAction ==
    PunchAnswered /\ result[1] \notin {<<"CLOCK_IN">>, <<"CLOCK_OUT">>}


\* C15: a punch answered with an action that is neither CLOCK_IN nor
\* CLOCK_OUT starts the warning pattern and hands over no callback; the
\* step that takes the answer goes to the cooldown and changes no screen,
\* and the cooldown goes back to the head of the loop.
C15_UnknownAction ==
    /\ [](OtherAction => evBeeps = <<"warning">> /\ evSched = <<>>)
    /\ [][(pollPc = "punch" /\ pollPc' # "punch")
            => pollPc' = "cooldown" /\ UNCHANGED <<current, running>>]_vars
    /\ [][(OtherAction /\ pollPc' # "cooldown")
            => pollPc' = "loop" /\ UNCHANGED <<clockQueue, screen, running>>]_vars

C15_Witness ==
    /\ OtherAction
    /\ result[1] = <<"BREAK">>
    /\ current = "home"
    /\ running

\* C16 as claimed: whenever Home is the active screen and its on_enter has
\* been dispatched, a read_rfid_loop thread is alive.
C16_HomeRearmsPoll ==
    (current = "home" /\ pending = "none") => pollPc # "dead"

\* C17: at most one read_rfid_loop thread is alive; a tag is taken from the
\* Tag Reader only by the thread standing at the read with no tag event in
\* progress, and a tag event ends only by its cooldown.
C17_OneTagEvent ==
    /\ [](pollThreads <= 1 /\ (pollThreads = 0 <=> pollPc = "dead"))
    /\ [][uid' # uid /\ uid' # <<>>
            => pollPc = "read" /\ uid = <<>> /\ evCalls = <<>> /\ evBeeps = <<>>]_vars
    /\ [][(~BetweenEvents /\ BetweenEvents') => pollPc = "cooldown"]_vars

C17_Witness ==
    /\ pollPc = "cooldown"
    /\ evSched # <<>> /\ evSched[1].kind = "clock"
    /\ clockQueue = <<>>
    /\ current = "home" /\ pending = "none" /\ running
    /\ pollThreads = 1

\* C18 as claimed: the Tag Reader is read only while Home is the active
\* screen.
C18_NoReadOffHome ==
    [][(pollPc = "read" /\ pollPc' # "read") => current = "home"]_vars

\* C19 as claimed: a step that takes the answer of a backend call while
\* Home is no longer the active screen starts no pattern and hands over no
\* callback.
C19_ResultDiscardedOffHome ==
    [][(Len(evCalls') > Len(evCalls) /\ current # "home")
          => UNCHANGED <<evBeeps, evSched, clockQueue>>]_vars

PunchStep == pollPc = "punch" /\ pollPc' # "punch"


\* C20: the step that takes the answer of a punch starts exactly one
\* pattern, whatever the active screen is: clock_in, clock_out, warning
\* or error by the answer.
C20_PunchFeedbackFires ==
    /\ [][PunchStep =>
            /\ evCalls' = Append(evCalls, "punch")
            /\ evBeeps' = Append(evBeeps,
                  IF result' = <<>> THEN "error"
                  ELSE IF result'[1] = <<"CLOCK_IN">> THEN "clock_in"
                  ELSE IF result'[1] = <<"CLOCK_OUT">> THEN "clock_out"
                  ELSE "warning")]_vars
    /\ []((pollPc = "cooldown" /\ InSeq("punch", evCalls)) => Len(evBeeps) = 1)

C20_Witness ==
    /\ pollPc = "punch"
    /\ current = "admin"

\* C21: a back touch on the clock feedback screen returns to Home and
\* cancels the return timer: a step that leaves the screen without running
\* a callback ends on Home with no timer pending.
C21_BackCancelsTimer ==
    /\ [][(current = "clock" /\ current' # "clock" /\ clockQueue' = clockQueue)
            => current' = "home" /\ timer' = "idle"]_vars
    /\ [](current = "clock" => timer = "pending")

C21_Witness ==
    /\ current = "home" /\ pending = "on_enter"
    /\ timer = "idle"
    /\ clockQueue = <<>>
    /\ pollPc = "cooldown"
    /\ evSched # <<>> /\ evSched[1].kind = "clock"

\* C22 as claimed: Error, Admin and the clock feedback screen are left for
\* Home only.
C22_OnlyHomeFollows ==
    [][(current \in {"error", "admin", "clock"} /\ current' # current)
          => current' = "home"]_vars

IsPrefix(s, t) == Len(s) <= Len(t) /\ s = SubSeq(t, 1, Len(s))

\* C27: within one tag event the steps are taken strictly in the order
\* classification, lookup, punch, feedback, cooldown: the backend calls are
\* a prefix of check_registration_mode, user_info, punch (or
\* check_registration_mode, submit_registration); punch is called only
\* with the UID whose user_info succeeded in the same iteration; a pattern
\* or a screen callback is given only once the result it depends on is
\* known, and nothing but the cooldown follows it.
C27_StepsInOrder ==
    /\ [](\/ IsPrefix(evCalls, <<"check_registration_mode", "user_info", "punch">>)
          \/ IsPrefix(evCalls, <<"check_registration_mode", "submit_registration">>))
    /\ [](InSeq("user_info", evCalls) => ~Truthy(session_id) /\ uid # admin_rfid)
    /\ [](InSeq("punch", evCalls) =>
             /\ user # <<>>
             /\ evArgs[2] = <<uid>> /\ evArgs[3] = <<uid>>
             /\ "user_info" \notin evFailed)
    /\ []((evBeeps # <<>> \/ evSched # <<>>) => pollPc = "cooldown")
    /\ [](SeqToSet(evBeeps) \cap {"clock_in", "clock_out", "warning"} # {}
             => InSeq("punch", evCalls) /\ result # <<>>)
    /\ [](InSeq("punch", evCalls) => Len(evBeeps) = 1)
    /\ [][(~BetweenEvents /\ BetweenEvents') => pollPc = "cooldown" /\ pollPc' = "loop"]_vars

C27_Witness ==
    /\ pollPc = "cooldown"
    /\ evCalls = <<"check_registration_mode", "user_info", "punch">>
    /\ evArgs[2] = evArgs[3]
    /\ evBeeps = <<"clock_out">>
    /\ Len(evSched) = 1

\* A step of the poll thread, and the end of a roster thread.
PollThreadStep == pollPc # "dead" /\ pollPc' # pollPc
RosterThreadStep == alive' # alive /\ alive' \subseteq alive
uiState == <<screen, running, clockScreen, message, press_counter, widget_list, worker>>

\* C26: no worker thread changes UI state: a step of the poll thread or of
\* a roster thread leaves the screens, their fields and the roster labels
\* alone and at most hands a callback to the Kivy clock; the screens the
\* poll thread asks for and the changes of the roster labels are applied by
\* the UI thread running such a callback, so the labels have one writer.
C26_UiStateOnUiThread ==
    /\ [][(PollThreadStep \/ RosterThreadStep) =>
            /\ UNCHANGED uiState
            /\ \/ clockQueue' = clockQueue
               \/ \E cb \in {clockQueue'[Len(clockQueue')]} :
                     clockQueue' = Append(clockQueue, cb)]_vars
    /\ [][widget_list' # widget_list => Runs("roster")]_vars
    /\ [][(current' # current /\ current' \in {"clock", "error"}) => Runs(current')]_vars
    /\ [][(current' # current /\ current' = "admin")
            => Runs("admin") \/ (press_counter = 2 /\ press_counter' = 0)]_vars

C26_Witness ==
    /\ current = "error"
    /\ pollPc = "cooldown" /\ evSched # <<>>
    /\ clockQueue # <<>> /\ Head(clockQueue).kind = "roster"
    /\ Head(clockQueue).arg # widget_list

\* A press is registered in this step, and the Admin screen opens in it.
Pressed == window_presses' # window_presses \/ press_counter' # press_counter
AdminOpens == current # "admin" /\ current' = "admin"

\* C30 as claimed: the Admin screen opens exactly at the third press of a
\* window, the window starting with the creation of the widget or with the
\* press that found the previous window over; a press 5 seconds or more
\* after the window start opens nothing and starts a window at count 1.
C30_ThirdPressOfWindow ==
    /\ [][AdminOpens <=> (Pressed /\ window_presses' = 3)]_vars
    /\ [][(Pressed /\ window_presses' = 1)
            => press_counter' = 1 /\ current' = current]_vars

\* C30 amended: the Admin screen opens exactly at every third press counted
\* since the window started or since the counter last opened Admin: opening
\* Admin resets the counter but does not start a new window, so the sixth
\* press of one window opens Admin again.
C30_EveryThirdPress ==
    /\ [][AdminOpens <=> (Pressed /\ window_presses' % 3 = 0)]_vars
    /\ [](press_counter = window_presses % 3)
    /\ [][(Pressed /\ window_presses' = 1)
            => press_counter' = 1 /\ current' = current]_vars
    /\ [][(Pressed /\ window_presses' # 1)
            => window_presses' = window_presses + 1]_vars

C30_Witness ==
    /\ current = "admin"
    /\ window_presses = 6
    /\ press_counter = 0

\* C23: when the reader failed to initialise (dev mode), read_uid never
\* returns a tag: the poll loop accepts none and keeps cycling through its
\* read and its sleep as long as running is set; rp.cleanup() returns
\* without raising however often it is called, in dev mode or not.
C23_ReaderDegraded ==
    /\ [](dev_mode => \A hw \in ReaderAnswers : read_uid(dev_mode, hw) = None)
    /\ [](dev_mode => uid = <<>> /\ pollPc \in {"dead", "loop", "read", "sleep"})
    /\ []((dev_mode /\ running) =>
             /\ pollPc \in {"loop", "read", "sleep"}
             /\ ENABLED (LoopCheck \/ ReadUid \/ SleepPoll))
    /\ [][(dev_mode /\ pollPc = "read") => pollPc' \in {"read", "sleep"}]_vars
    /\ [](lastCall.op = "rp.cleanup" => lastCall.outcome = "returned")
    /\ [][rp_cleanups' # rp_cleanups => UNCHANGED <<pollVars, running, screen>>]_vars

C23_Witness ==
    /\ dev_mode
    /\ rp_cleanups = 2
    /\ lastCall.op = "rp.cleanup"
    /\ running /\ pollPc = "sleep"

\* C24: a pattern call of the buzzer returns without raising and without
\* playing the pattern: the call writes nothing to the pin and leaves the
\* whole pattern to a thread of its own; with enabled false the pattern
\* calls and cleanup change nothing, no thread exists and the pin is never
\* written.
C24_BuzzerCalls ==
    /\ [](lastCall.outcome = "returned")
    /\ [][\A name \in PatternNames : PatternCall(name) =>
            /\ pin' = pin /\ pin_writes' = pin_writes
            /\ lastCall' = [op |-> name, outcome |-> "returned"]
            /\ IF enabled
               THEN \E t \in 1..MaxPatterns :
                       /\ patterns[t] = <<>>
                       /\ patterns' = [patterns EXCEPT
                                          ![t] = Levels(PatternBeeps(name))]
               ELSE patterns' = patterns]_vars
    /\ [](~enabled => pin = "LOW" /\ pin_writes = 0 /\ patterns = NoPatterns)
    /\ [][pin_writes' # pin_writes =>
            \/ enabled /\ lastCall'.op = "buzzer.cleanup" /\ patterns' = patterns
            \/ \E t \in 1..MaxPatterns : Len(patterns'[t]) < Len(patterns[t])]_vars

C24_Witness ==
    /\ enabled
    /\ lastCall.op = "error"
    /\ \E t \in 1..MaxPatterns : patterns[t] = Levels(3)
    /\ pin_writes = 0

C24_DisabledWitness ==
    /\ ~enabled
    /\ lastCall.op = "buzzer.cleanup"
    /\ app = "running"

\* The backend operations __main__ and the poll loop call.
PollOperations ==
    {"health_check", "check_registration_mode", "submit_registration",
     "user_info", "punch"}

\* C28 as claimed: with demo mode selected the terminal starts and finds
\* every backend operation it calls, user_info giving the tuple of four the
\* poll loop unpacks.
C28_MockSameInterface ==
    (demo_mode /\ app # "init") =>
        /\ app = "running"
        /\ PollOperations \subseteq Operations(demo_mode)
        /\ UserInfoShape(demo_mode) = 4

\* C29: once running is cleared the poll thread ends unless Home is entered
\* again: it finishes the iteration it is in, backend call and cooldown
\* included, finds the flag cleared at the head of the loop and returns; off
\* Home it starts no tag event meanwhile.
C29_WorkerTerminates ==
    /\ (~running /\ pollPc # "dead") ~> (pollPc = "dead" \/ running)
    /\ [][(pollPc = "loop" /\ ~running /\ pollPc' # "loop") => pollPc' = "exit"]_vars
    /\ [][(pollPc = "exit" /\ pollPc' # "exit") => pollPc' = "dead"]_vars
    /\ [][(~running /\ current # "home" /\ pollPc \in {"read", "sleep"})
            => pollPc' \in {"read", "sleep", "loop"}]_vars

C29_Witness ==
    /\ ~running /\ current = "admin" /\ pending = "none"
    /\ pollPc = "punch"

\* C25: an exception raised inside an iteration of the poll loop or inside
\* a roster refresh stays in its worker: the poll thread goes to its except
\* clause, changes nothing of the screens, and after the pause is back at
\* the head of the loop; it ends only by finding running cleared there.  A
\* refresh that raises ends its own thread and changes nothing else.
C25_ExceptionsStayInWorker ==
    /\ [][(pollPc # "dead" /\ pollPc' = "dead") => pollPc = "exit"]_vars
    /\ [][(pollPc # "exit" /\ pollPc' = "exit") => pollPc = "loop" /\ ~running]_vars
    /\ [][(pollPc # "except" /\ pollPc' = "except")
            => UNCHANGED <<uiState, clockQueue, pollThreads, rosterThreads>>]_vars
    /\ [][(pollPc = "except" /\ pollPc' # "except")
            => /\ pollPc' = "loop"
               /\ UNCHANGED <<uiState, clockQueue, pollThreads, rosterThreads>>]_vars
    /\ [](pollPc = "except" => ENABLED ExceptPause)
    /\ [][RosterThreadStep => UNCHANGED <<uiState, pollVars>>]_vars
    /\ [](pollPc # "dead" => pollThreads = 1)

C25_Witness ==
    /\ pollPc = "except"
    /\ running
    /\ evCalls = <<"check_registration_mode", "user_info">>
    /\ alive = {}

\* C33 as claimed: while the return timer of the clock feedback screen is
\* pending that screen is the active one, so the timer never takes Error or
\* Admin to Home.
C33_TimerOnlyOnClockScreen ==
    /\ [](timer = "pending" => current = "clock")
    /\ [][(timer = "pending" /\ timer' = "idle" /\ current' # current)
            => current = "clock"]_vars

\* The branch a tag event has taken, by what it has done so far.
RegistrationBranch == InSeq("submit_registration", evCalls)
AdminBranch == InSeq("admin_mode", evBeeps) \/ InSeq(AdminCallback, evSched)
PunchBranch == InSeq("user_info", evCalls) \/ InSeq("punch", evCalls)
Branches ==
    (IF RegistrationBranch THEN 1 ELSE 0) + (IF AdminBranch THEN 1 ELSE 0)
        + (IF PunchBranch THEN 1 ELSE 0)

\* C36: a tag event takes one branch, registration, admin or punch: never
\* two of them, and exactly one by the time of its cooldown; up to its
\* cooldown it has handed over at most one screen callback and started at
\* most one pattern, each in a single step.
C36_OneBranchPerEvent ==
    /\ [](Branches <= 1)
    /\ [](pollPc = "cooldown" => Branches = 1)
    /\ [](Len(evSched) <= 1 /\ Len(evBeeps) <= 1)
    /\ [][Len(evSched') <= Len(evSched) + 1 /\ Len(evBeeps') <= Len(evBeeps) + 1]_vars
    /\ [](\A i \in 1..Len(evSched) : evSched[i].kind \in {"admin", "clock", "error"})

C36_Witness ==
    /\ pollPc = "cooldown"
    /\ AdminBranch
    /\ evCalls = <<"check_registration_mode">>
    /\ clockQueue = <<AdminCallback>>
    /\ current = "home"

\* C38: the press counter stays within 0..2 whatever the times of the
\* presses are: the press that would make it 3 leaves it at 0, and a press
\* that finds the window over leaves it at 1.
C38_PressCounterRange ==
    /\ [](press_counter \in 0..2)
    /\ [][\A elapsed \in {0, PressWindow - 1, PressWindow, PressWindow + 1} :
            on_press(elapsed) =>
                press_counter' = IF elapsed >= PressWindow THEN 1
                                 ELSE IF press_counter = 2 THEN 0
                                 ELSE press_counter + 1]_vars

C38_Witness ==
    /\ press_counter = 0
    /\ window_presses = 3
    /\ current = "admin"
    /\ pending = "on_leave"

\* C34: once a roster callback has run, the texts of the labels are the
\* texts of the fetched roster, and the same roster applied again removes
\* and adds nothing, also when the roster has the same text twice.
C34_RefreshIdempotent ==
    [][Runs("roster") =>
         LET N == Head(clockQueue).arg IN
         /\ SeqToSet(widget_list') = SeqToSet(N)
         /\ remove_list(widget_list', N) = <<>>
         /\ add_list(widget_list', N) = <<>>]_vars

C34_Witness ==
    /\ widget_list = <<<<"A">>, <<"A">>>>
    /\ clockQueue = <<RosterCallback(<<<<"A">>, <<"A">>>>)>>

\* The fetch of the roster failed: no answer, a status other than 200, or a
\* body that is no JSON.
FetchFailed(resp) == GetFailed(resp) \/ get(resp).raised

\* C35: a failed fetch of the roster is an empty roster: working_users
\* returns the empty list, every refresh thread hands over a callback, the
\* one of a failed fetch being the empty roster, and that callback removes
\* every label shown.
C35_FailedFetchClearsRoster ==
    /\ [](\A resp \in RosterExchanges(RosterNames) :
             FetchFailed(resp) =>
                 /\ working_users(resp) = <<>>
                 /\ new_widget_data(working_users(resp)) = <<>>)
    /\ [][RosterThreadStep =>
            \E resp \in RosterExchanges(RosterNames) :
               clockQueue' = Append(clockQueue,
                   RosterCallback(new_widget_data(working_users(resp))))]_vars
    /\ [][(Runs("roster") /\ Head(clockQueue).arg = <<>>) => widget_list' = <<>>]_vars
    /\ [](alive # {} /\ Len(clockQueue) < MaxQueue =>
             ENABLED (clockQueue' = Append(clockQueue, RosterCallback(<<>>))
                      /\ \E t \in 1..MaxThreads : update_widgets(t, RosterNames)))

C35_Witness ==
    /\ widget_list = <<<<"A">>, <<"B">>>>
    /\ clockQueue = <<RosterCallback(<<>>)>>
    /\ alive = {}

C37_FinishedWitness ==
    /\ patterns = NoPatterns
    /\ pin_writes = MaxWrites
    /\ lastCall.op = "clock_in"

\* C31: on_stop calls the cleanup of the reader and then the cleanup of the
\* buzzer, whether the reader's cleanup failed or not: on_stop returns, and
\* with the buzzer enabled and its pin writable the pin has been written
\* LOW; the final block of __main__ does the same.
C31_StopCleansBoth ==
    /\ [](lastCall.op \in {"on_stop", "finally"} => lastCall.outcome = "returned")
    /\ [][\A hw_raises \in BOOLEAN, gpio_raises \in BOOLEAN :
            (on_stop(hw_raises, gpio_raises)
                \/ (app = "stopping" /\ final_cleanup(hw_raises, gpio_raises))) =>
               /\ rp_cleanups' = rp_cleanups + 1
               /\ lastCall'.outcome = "returned"
               /\ lastCall'.reader = reader_cleanup(dev_mode, hw_raises)
               /\ (enabled /\ ~gpio_raises) =>
                     pin' = "LOW" /\ pin_writes' = pin_writes + 1]_vars
    /\ [][(app = "running" /\ app' = "stopping" /\ enabled) =>
            pin' \in {pin, "LOW"}]_vars
    /\ [](\A hw_raises \in BOOLEAN :
            (app = "running" /\ rp_cleanups < MaxCleanups /\ pin_writes < MaxWrites)
               => ENABLED on_stop(hw_raises, FALSE))

\* on_stop has run while a pattern was sounding: the reader's cleanup
\* failed, on_stop returned and the buzzer's cleanup wrote the pin LOW.
C31_Witness ==
    /\ app = "stopping"
    /\ lastCall = [op |-> "on_stop", outcome |-> "returned", reader |-> "failed"]
    /\ enabled
    /\ pin = "LOW"
    /\ \E t \in 1..MaxPatterns : patterns[t] = <<"LOW">>

\* The flag of the mock's user with this id; FALSE when it has none.
ClockedIn(users, user_id) ==
    \E i \in 1..Len(users) : users[i].id = user_id /\ users[i].clocked_in
KnownId(users, user_id) == \E i \in 1..Len(users) : users[i].id = user_id
WorkingIds(users) == {id \in MockIds : ClockedIn(users, id)}

\* C32: on the mock, clock_in of a clocked-out user sets the flag and
\* returns True, of a clocked-in user returns False and changes nothing;
\* clock_out is its mirror image; an unknown id returns None and changes
\* nothing; no call touches another user's flag or anything but the flag;
\* working_users returns one entry for each user with the flag set and no
\* other.
C32_MockToggle ==
    /\ [][\A id \in MockIds : MockClockIn(id) =>
            /\ mock_ret'.ret =
                  IF ~KnownId(mock_users, id) THEN "None"
                  ELSE IF ClockedIn(mock_users, id) THEN "False" ELSE "True"
            /\ mock_ret'.ret # "True" => mock_users' = mock_users
            /\ mock_ret'.ret = "True" => ClockedIn(mock_users', id)]_vars
    /\ [][\A id \in MockIds : MockClockOut(id) =>
            /\ mock_ret'.ret =
                  IF ~KnownId(mock_users, id) THEN "None"
                  ELSE IF ClockedIn(mock_users, id) THEN "True" ELSE "False"
            /\ mock_ret'.ret # "True" => mock_users' = mock_users
            /\ mock_ret'.ret = "True" => ~ClockedIn(mock_users', id)]_vars
    /\ [][\A id \in MockIds :
            (mock_ret'.op \in {"clock_in", "clock_out"} /\ mock_ret'.arg = id) =>
               /\ \A other \in MockIds \ {id} :
                     ClockedIn(mock_users', other) = ClockedIn(mock_users, other)
               /\ Len(mock_users') = Len(mock_users)
               /\ \A i \in 1..Len(mock_users) :
                     [mock_users'[i] EXCEPT !.clocked_in = FALSE]
                        = [mock_users[i] EXCEPT !.clocked_in = FALSE]]_vars
    /\ [][MockWorkingUsers =>
            /\ mock_users' = mock_users
            /\ {mock_ret'.working[k][3] : k \in 1..Len(mock_ret'.working)}
                  = WorkingIds(mock_users)
            /\ Len(mock_ret'.working) = Cardinality(WorkingIds(mock_users))
            /\ \A k \in 1..Len(mock_ret'.working) :
                  \E i \in 1..Len(mock_users) :
                     /\ mock_users[i].clocked_in
                     /\ mock_ret'.working[k][1] = mock_users[i].name
                     /\ mock_ret'.working[k][3] = mock_users[i].id]_vars

\* A second clock_in of Max Mustermann was answered False, with Tom Meyer
\* clocked out in between.
C32_Witness ==
    /\ mock_ret = [op |-> "clock_in", arg |-> "user_001", ret |-> "False",
                   working |-> <<>>]
    /\ WorkingIds(mock_users) = {"user_001"}

C32_WorkingWitness ==
    /\ mock_ret.op = "working_users"
    /\ Len(mock_ret.working) = 2
    /\ WorkingIds(mock_users) = {"user_001", "user_002"}

====
